---------------------------- MODULE Spec2Model ----------------------------
(***************************************************************************)
(* A model of src/utils.py of gtfs-to-osm: the voluptuous validators, the  *)
(* classification loop and the platform resolution of osm_2_gdf, and the   *)
(* correlation ledger (write_correlation_row / filter_correlated_data).    *)
(***************************************************************************)
EXTENDS Integers, Sequences, FiniteSets, TLC

(***************************************************************************)
(* Bounds of the model.                                                    *)
(***************************************************************************)
\* Longest input ("elements" list of the Overpass export) that is explored.
MaxElems == 3
\* Node and way ids of the input range over 1..MaxId.
MaxId == 2
\* Most rows the correlation file grows to.
MaxRows == 2

(***************************************************************************)
(* Program constants.                                                      *)
(***************************************************************************)
\* Length(min=2) of the "nodes" list of a platform way.
MinNodes == 2
\* Length(min=1) of non_empty_string.
MinNameLen == 1

\* The default name, elem.get("tags", {}).get("name", "n/a").
NA == "n/a"
\* Marks a key that the JSON object does not have.
NoKey == "<no key>"

(***************************************************************************)
(* JSON values.  A scalar is [k |-> its Python type, v |-> its value]; k = *)
(* "absent" marks a missing key.  A float v stands for the float v + 0.5,  *)
(* so that a float never equals an int.                                    *)
(***************************************************************************)
JInt(n) == [k |-> "int", v |-> n]
JFloat(n) == [k |-> "float", v |-> n]
JAbsent == [k |-> "absent", v |-> 0]

JTags(name, pt, hw) ==
    [k |-> "dict", name |-> name, public_transport |-> pt, highway |-> hw]
JNoTags ==
    [k |-> "absent", name |-> NoKey, public_transport |-> NoKey, highway |-> NoKey]

JList(s) == [k |-> "list", v |-> s]
JNoList == [k |-> "absent", v |-> <<>>]

Elem(type, id, lat, lon, tags, nodes) ==
    [type |-> type, id |-> id, lat |-> lat, lon |-> lon, tags |-> tags,
     nodes |-> nodes]

\* Python's len() of the strings the model uses as names.
StrLen(s) == IF s = "" THEN 0 ELSE 1

(***************************************************************************)
(* The validators (voluptuous schemas).                                    *)
(***************************************************************************)
\* non_empty_string = All(str, Length(min=1))
non_empty_string(s) == StrLen(s) >= MinNameLen

\* Schema({"public_transport": "platform"}, extra=ALLOW_EXTRA): a Schema of its
\* own, so required is the default False: a key that is absent passes, a key
\* that is present must hold the value.
TagSchemaPublicTransport(tags) ==
    tags.public_transport \in {NoKey, "platform"}

\* Schema({"highway": "bus_stop"}, extra=ALLOW_EXTRA), as above.
TagSchemaHighway(tags) ==
    tags.highway \in {NoKey, "bus_stop"}

\* The "tags" value of osm_node_stop_validator: All(Schema({Opt("name"): ...}),
\* Schema(Required(Any(..., ...)))).
NodeTagsSchema(tags) ==
    /\ tags.k = "dict"
    /\ (tags.name # NoKey => non_empty_string(tags.name))
    /\ (TagSchemaPublicTransport(tags) \/ TagSchemaHighway(tags))

\* osm_node_stop_validator: required=True, extra=ALLOW_EXTRA.
osm_node_stop_validator(e) ==
    /\ e.type = "node"
    /\ e.id.k = "int"
    /\ e.lat.k = "float"
    /\ e.lon.k = "float"
    /\ NodeTagsSchema(e.tags)

\* osm_way_stop_validator: required=True, extra=ALLOW_EXTRA; the nested dict
\* of "tags" is compiled by the same Schema, so its key is required too.
osm_way_stop_validator(e) ==
    /\ e.type = "way"
    /\ e.id.k = "int"
    /\ e.nodes.k = "list"
    /\ Len(e.nodes.v) >= MinNodes
    /\ e.tags.k = "dict"
    /\ e.tags.public_transport = "platform"

\* A mutant of osm_node_part_of_way_validator: extra keys allowed.
osm_node_part_of_way_validator_extra(e) ==
    /\ e.type = "node"
    /\ e.id.k = "int"
    /\ e.lat.k = "float"
    /\ e.lon.k = "float"

\* osm_node_part_of_way_validator: required=True and the default
\* extra=PREVENT_EXTRA: any key besides type, id, lat, lon is an error.
osm_node_part_of_way_validator(e) ==
    /\ e.type = "node"
    /\ e.id.k = "int"
    /\ e.lat.k = "float"
    /\ e.lon.k = "float"
    /\ e.tags.k = "absent"
    /\ e.nodes.k = "absent"

\* ElemType
ElemType == {"node", "way", "way_node"}

\* validators[elem_type](elem) does not raise.
Validates(elem_type, e) ==
    CASE elem_type = "node" -> osm_node_stop_validator(e)
      [] elem_type = "way" -> osm_way_stop_validator(e)
      [] elem_type = "way_node" -> osm_node_part_of_way_validator(e)

\* _is_elem_type: the returned bool.
IsElemType(elem_type, e) == Validates(elem_type, e)

\* _is_elem_type: the log.error call, made when validation fails and quiet is
\* not set.  idx is the position of the element in the input.
IsElemTypeLog(elem_type, e, quiet, idx) ==
    IF ~Validates(elem_type, e) /\ ~quiet
    THEN <<[event |-> "failed to validate", about |-> elem_type, idx |-> idx]>>
    ELSE <<>>

(***************************************************************************)
(* The inputs: a catalogue of element shapes over the ids 1..MaxId.        *)
(***************************************************************************)
Ids == 1..MaxId

\* The coordinates of node n in the export.
LatOf(n) == 40 + n
LonOf(n) == 20 + n

\* A reference to a node the export never holds.
GoneId == MaxId + 1
\* The id after n, wrapping around.
NextId(n) == (n % MaxId) + 1

\* A way-member node: only type, id, lat and lon.
BareNode(n) == Elem("node", JInt(n), JFloat(LatOf(n)), JFloat(LonOf(n)), JNoTags, JNoList)
\* The same node at another place (a repeated id in the export).
MovedNode(n) == Elem("node", JInt(n), JFloat(LatOf(n) + 10), JFloat(LonOf(n) + 10), JNoTags, JNoList)
\* A node with tags.
TaggedNode(n, tags) == Elem("node", JInt(n), JFloat(LatOf(n)), JFloat(LonOf(n)), tags, JNoList)
\* A way.
Way(n, nodes, tags) == Elem("way", JInt(n), JAbsent, JAbsent, tags, JList(nodes))

NodeElems ==
    {BareNode(n) : n \in Ids}
    \cup {TaggedNode(n, JTags(NoKey, NoKey, "bus_stop")) : n \in Ids}
    \cup {MovedNode(1),
          TaggedNode(1, JTags("Piata Unirii", "platform", NoKey)),
          \* tags without either of the two stop tags
          TaggedNode(1, JTags(NoKey, NoKey, NoKey)),
          \* both stop keys with other values
          TaggedNode(1, JTags(NoKey, "station", "crossing")),
          \* an empty name
          TaggedNode(1, JTags("", NoKey, "bus_stop")),
          \* no lat
          Elem("node", JInt(1), JAbsent, JFloat(LonOf(1)), JNoTags, JNoList),
          \* lat an int
          Elem("node", JInt(1), JInt(LatOf(1)), JFloat(LonOf(1)),
               JTags(NoKey, NoKey, "bus_stop"), JNoList)}

WayElems ==
    {Way(n, <<n, NextId(n)>>, JTags("Peron", "platform", NoKey)) : n \in Ids}
    \cup {Way(1, <<GoneId, 1, 2>>, JTags(NoKey, "platform", NoKey)),
          \* too few nodes
          Way(1, <<1>>, JTags(NoKey, "platform", NoKey)),
          \* not a platform
          Way(1, <<1, 2>>, JNoTags)}

OtherElems ==
    {Elem("relation", JInt(1), JAbsent, JAbsent, JNoTags, JNoList),
     \* no "type" key
     Elem(NoKey, JInt(1), JFloat(LatOf(1)), JFloat(LonOf(1)), JNoTags, JNoList)}

Elements == NodeElems \cup WayElems \cup OtherElems

\* Every input of at most MaxElems elements.
Inputs == UNION {[1..n -> Elements] : n \in 0..MaxElems}

(***************************************************************************)
(* osm_2_gdf                                                               *)
(***************************************************************************)
VARIABLES
    elements,       \* raw_data["elements"]
    pc,             \* "classify", "resolve", "done", "raised"
    i,              \* position of the classification loop in elements
    types, ids, names, points,   \* the four column lists
    platforms,      \* the pending platforms
    platform_nodes, \* the way-member-node mapping, by str(id)
    p,              \* position of the resolution loop in platforms
    log,            \* the log events, in order
    gdf,            \* the returned GeoDataFrame (a sequence of rows)
    origin,         \* history: for each record, the element or platform it is from
    entered,        \* history: positions of the elements put into platform_nodes
    faultAt         \* history: the platform at which an exception was raised

osmVars == <<elements, pc, i, types, ids, names, points, platforms,
             platform_nodes, p, log, gdf, origin, entered, faultAt>>

\* The state of the correlation file and of State.
VARIABLES
    last_clicked_gtfs_element,  \* State: a GtfsStop, or NoStop for None
    last_clicked_osm_element,   \* State: an OsmStop, or NoStop for None
    file,           \* the correlation file: its lines, each a sequence of cells
    gtfs_nodes,     \* the GTFS table given to filter_correlated_data
    osm_nodes,      \* the OSM table given to filter_correlated_data
    filtered,       \* what filter_correlated_data returned last (and, as
                    \* history, the matches the file held then)
    matches         \* history: the pairs <<G, O>> write_correlation_row has written

corrVars == <<last_clicked_gtfs_element, last_clicked_osm_element, file,
              gtfs_nodes, osm_nodes, filtered, matches>>

\* str() of an int.
Str(n) == ToString(n)

\* shapely's Point(x, y).
Point(x, y) == [x |-> x, y |-> y]

\* elem.get("tags", {}).get("name", "n/a")
NameOf(e) == IF e.tags.k = "dict" /\ e.tags.name # NoKey THEN e.tags.name ELSE NA

\* platform_nodes[key] = node
PutNode(mapping, key, node) == (key :> node) @@ mapping

\* A mutant of AddPlatform: the platform is put first.
AddPlatformFirst(pls, pl) == <<pl>> \o pls

\* platforms.append(pl)
AddPlatform(pls, pl) == Append(pls, pl)

\* A mutant of LoopDone: the loop ends after its first element.
LoopDoneEarly(k, seq) == k > Len(seq) \/ k > 1

\* The for loop over seq has consumed every element.
LoopDone(k, seq) == k > Len(seq)

InitOsm ==
    /\ elements \in Inputs
    /\ pc = "classify"
    /\ i = 1
    /\ types = <<>> /\ ids = <<>> /\ names = <<>> /\ points = <<>>
    /\ platforms = <<>>
    /\ platform_nodes = <<>>
    /\ p = 0
    /\ log = <<>>
    /\ gdf = <<>>
    /\ origin = <<>>
    /\ entered = {}
    /\ faultAt = 0


\* The record of a standalone stop node (lines 128 to 131).
NodeRecord(e) ==
    [type |-> e.type, id |-> Str(e.id.v), point |-> Point(e.lon.v, e.lat.v),
     name |-> NameOf(e)]

\* The pending platform of a way (lines 150 to 157).
PlatformOf(e) ==
    [type |-> "way", id |-> Str(e.id.v), name |-> NameOf(e), nodes |-> e.nodes.v]

\* A mutant of StoresNode: every node with a place is stored, whatever became
\* of it before.
StoresNodeAlways(e) == osm_node_part_of_way_validator_extra(e)

\* The node branch stores e in platform_nodes: the first check has failed (it
\* ends in "continue" otherwise) and the second has passed (lines 127 to 140).
StoresNode(e) == ~IsElemType("node", e) /\ IsElemType("way_node", e)

\* The node branch emits a record for e (lines 127 to 132).
EmitsNode(e) == IsElemType("node", e)

\* One pass of the classification loop (lines 117 to 158) over elements[i].
\* elem["type"] of an element without that key raises KeyError, which nothing
\* catches: osm_2_gdf ends without a result.
Classify ==
    /\ pc = "classify"
    /\ ~LoopDone(i, elements)
    /\ LET e == elements[i] IN
       IF e.type = NoKey
       THEN /\ pc' = "raised"
            /\ UNCHANGED <<i, types, ids, names, points, platforms,
                           platform_nodes, log, origin, entered>>
       ELSE /\ pc' = pc
            /\ i' = i + 1
            /\ IF e.type = "node" /\ EmitsNode(e)
               THEN /\ types' = Append(types, NodeRecord(e).type)
                    /\ ids' = Append(ids, NodeRecord(e).id)
                    /\ points' = Append(points, NodeRecord(e).point)
                    /\ names' = Append(names, NodeRecord(e).name)
                    /\ origin' = Append(origin, [kind |-> "node", idx |-> i, ref |-> 0])
               ELSE UNCHANGED <<types, ids, names, points, origin>>
            /\ IF e.type = "node" /\ StoresNode(e)
               THEN /\ platform_nodes' =
                         PutNode(platform_nodes, Str(e.id.v),
                                 [point |-> Point(e.lon.v, e.lat.v)])
                    /\ entered' = entered \cup {i}
               ELSE UNCHANGED <<platform_nodes, entered>>
            /\ IF e.type = "way" /\ IsElemType("way", e)
               THEN platforms' = AddPlatform(platforms, PlatformOf(e))
               ELSE UNCHANGED platforms
            /\ log' = log \o
                 (CASE e.type = "node" ->
                         IsElemTypeLog("node", e, TRUE, i) \o
                         (IF IsElemType("node", e) THEN <<>>
                          ELSE IsElemTypeLog("way_node", e, FALSE, i))
                    [] e.type = "way" -> IsElemTypeLog("way", e, FALSE, i)
                    [] OTHER -> <<>>)
    /\ UNCHANGED <<elements, p, gdf, faultAt>>
    /\ UNCHANGED corrVars

\* The loop has ended: log.info (line 163) and the try (line 165).
StartResolve ==
    /\ pc = "classify"
    /\ LoopDone(i, elements)
    /\ pc' = "resolve"
    /\ p' = 1
    /\ log' = Append(log, [event |-> "resolving nodes", about |-> "platforms",
                           idx |-> Len(platforms)])
    /\ UNCHANGED <<elements, i, types, ids, names, points, platforms,
                   platform_nodes, gdf, origin, entered, faultAt>>
    /\ UNCHANGED corrVars

RECURSIVE FirstMatchFrom(_, _, _)
\* The walk of lines 168 to 179 from position k: the position of the first
\* reference that platform_nodes holds, 0 when there is none.
FirstMatchFrom(nodes, mapping, k) ==
    IF k > Len(nodes) THEN 0
    ELSE IF Str(nodes[k]) \in DOMAIN mapping THEN k
    ELSE FirstMatchFrom(nodes, mapping, k + 1)

RECURSIVE LastMatchFrom(_, _, _)
LastMatchFrom(nodes, mapping, k) ==
    IF k < 1 THEN 0
    ELSE IF Str(nodes[k]) \in DOMAIN mapping THEN k
    ELSE LastMatchFrom(nodes, mapping, k - 1)

\* A mutant of FirstMatch: the walk does not stop at its first hit.
LastMatch(nodes, mapping) == LastMatchFrom(nodes, mapping, Len(nodes))

FirstMatch(nodes, mapping) == FirstMatchFrom(nodes, mapping, 1)

\* The log.error calls of one walk: one per reference passed over (line 172)
\* and, when the walk finds nothing, one for the platform (line 181).
WalkLog(nodes, mapping, at) ==
    LET m == FirstMatch(nodes, mapping)
        passed == IF m = 0 THEN Len(nodes) ELSE m - 1
    IN  [k \in 1..passed |->
            [event |-> "platform node not found", about |-> Str(nodes[k]), idx |-> at]]
        \o (IF m = 0
            THEN <<[event |-> "failed to find a node", about |-> "platform", idx |-> at]>>
            ELSE <<>>)

\* One pass of the resolution loop (lines 166 to 181) over platforms[p].
ResolvePlatform ==
    /\ pc = "resolve"
    /\ ~LoopDone(p, platforms)
    /\ LET platform == platforms[p]
           m == FirstMatch(platform.nodes, platform_nodes)
       IN  /\ IF m # 0
              THEN LET n == platform_nodes[Str(platform.nodes[m])] IN
                   /\ types' = Append(types, platform.type)
                   /\ ids' = Append(ids, platform.id)
                   /\ points' = Append(points, n.point)
                   /\ names' = Append(names, platform.name)
                   /\ origin' = Append(origin, [kind |-> "way", idx |-> p,
                                                ref |-> platform.nodes[m]])
              ELSE UNCHANGED <<types, ids, names, points, origin>>
           /\ log' = log \o WalkLog(platform.nodes, platform_nodes, p)
    /\ p' = p + 1
    /\ UNCHANGED <<elements, pc, i, platforms, platform_nodes, gdf, entered, faultAt>>
    /\ UNCHANGED corrVars

\* GeoDataFrame({...}, geometry=points, crs="EPSG:4326"): one row per position.
GeoDataFrame(ts, is, ns, ps) ==
    [k \in 1..Len(ts) |->
        [stop_type |-> ts[k], stop_id |-> is[k], stop_name |-> ns[k],
         geometry |-> ps[k]]]

\* The return (lines 185 to 193), after the try statement.
Return ==
    /\ pc = "resolve"
    /\ LoopDone(p, platforms)
    /\ gdf' = GeoDataFrame(types, ids, names, points)
    /\ pc' = "done"
    /\ UNCHANGED <<elements, i, types, ids, names, points, platforms,
                   platform_nodes, p, log, origin, entered, faultAt>>
    /\ UNCHANGED corrVars

\* An exception raised in the body of the resolution loop at platforms[p],
\* before anything is appended for it: "except Exception" (line 182) is outside
\* the for statement, so the handler runs after the loop has been left.
ResolveFault ==
    /\ pc = "resolve"
    /\ ~LoopDone(p, platforms)
    /\ faultAt' = p
    /\ log' = Append(log, [event |-> "fooock", about |-> "exception", idx |-> p])
    /\ p' = Len(platforms) + 1
    /\ UNCHANGED <<elements, pc, i, types, ids, names, points, platforms,
                   platform_nodes, gdf, origin, entered>>
    /\ UNCHANGED corrVars

(***************************************************************************)
(* The correlation file: State, write_correlation_row and                  *)
(* filter_correlated_data.                                                 *)
(***************************************************************************)
\* None, as a stop.
NoStop == [stop_type |-> NoKey, stop_id |-> NoKey, stop_name |-> NoKey]

\* GtfsStop (stop_desc, stop_lat and stop_lon play no part in the file).
GtfsStop(id, name) == [stop_type |-> "gtfs", stop_id |-> id, stop_name |-> name]

\* OsmStop
OsmStop(type, id, name) == [stop_type |-> type, stop_id |-> id, stop_name |-> name]

\* The stop names that hold the delimiter of the csv module.
WithComma == {"Unirii, peron 1"}

GtfsStops ==
    {GtfsStop(Str(1000 + n), "Unirii, peron 1") : n \in Ids}

OsmStops ==
    {OsmStop("node", Str(n), NA) : n \in Ids}
    \cup {OsmStop("way", Str(n), "Peron") : n \in Ids}

RECURSIVE SeqOf(_)
\* The rows of a table, in some fixed order.
SeqOf(S) ==
    IF S = {} THEN <<>>
    ELSE LET x == CHOOSE y \in S : TRUE IN <<x>> \o SeqOf(S \ {x})

\* csv.writer(f).writerow(row): a field that holds the delimiter is quoted.
CsvWriteRow(row) ==
    [k \in 1..Len(row) |-> [quoted |-> row[k] \in WithComma, text |-> row[k]]]

\* csv.reader(f): a line back to its fields.
CsvReadRow(line) == [k \in 1..Len(line) |-> line[k].text]

\* State.both_nodes_set
both_nodes_set ==
    /\ last_clicked_gtfs_element # NoStop
    /\ last_clicked_osm_element # NoStop

\* The row of write_correlation_row (lines 218 to 224).
CorrelationRow ==
    <<last_clicked_gtfs_element.stop_id,
      last_clicked_gtfs_element.stop_name,
      last_clicked_osm_element.stop_type,
      last_clicked_osm_element.stop_id,
      last_clicked_osm_element.stop_name>>

\* Python's row[k], which counts from 0.
At(row, k) == row[k + 1]

\* gtfs_correlated_nodes of filter_correlated_data: row[0] of every row.
GtfsCorrelated(f) == {At(CsvReadRow(f[k]), 0) : k \in 1..Len(f)}

\* osm_correlated_nodes of filter_correlated_data: row[2] of every row.
OsmCorrelated(f) == {At(CsvReadRow(f[k]), 2) : k \in 1..Len(f)}

\* table[~table["stop_id"].isin(S)]
NotIn(table, S) == SelectSeq(table, LAMBDA r : r.stop_id \notin S)

InitCorr ==
    /\ last_clicked_gtfs_element = NoStop
    /\ last_clicked_osm_element = NoStop
    /\ file = <<>>
    /\ gtfs_nodes = SeqOf(GtfsStops)
    /\ osm_nodes = SeqOf(OsmStops)
    /\ filtered = [ran |-> FALSE, gtfs |-> <<>>, osm |-> <<>>, of |-> {}]
    /\ matches = {}

\* The user picks a GTFS stop: State.last_clicked_gtfs_element is set.
ClickGtfs ==
    /\ \E g \in GtfsStops : last_clicked_gtfs_element' = g
    /\ UNCHANGED <<last_clicked_osm_element, file, gtfs_nodes, osm_nodes,
                   filtered, matches>>
    /\ UNCHANGED osmVars

\* The user picks an OSM stop: State.last_clicked_osm_element is set.
ClickOsm ==
    /\ \E o \in OsmStops : last_clicked_osm_element' = o
    /\ UNCHANGED <<last_clicked_gtfs_element, file, gtfs_nodes, osm_nodes,
                   filtered, matches>>
    /\ UNCHANGED osmVars

\* State.reset
Reset ==
    /\ last_clicked_gtfs_element' = NoStop
    /\ last_clicked_osm_element' = NoStop
    /\ UNCHANGED <<file, gtfs_nodes, osm_nodes, filtered, matches>>
    /\ UNCHANGED osmVars

\* write_correlation_row(state, file), called for a confirmed match.
WriteCorrelationRow ==
    /\ both_nodes_set
    /\ Len(file) < MaxRows
    /\ file' = Append(file, CsvWriteRow(CorrelationRow))
    /\ matches' = matches \cup {<<last_clicked_gtfs_element.stop_id,
                                  last_clicked_osm_element.stop_id>>}
    /\ UNCHANGED <<last_clicked_gtfs_element, last_clicked_osm_element,
                   gtfs_nodes, osm_nodes, filtered>>
    /\ UNCHANGED osmVars

\* filter_correlated_data(file, gtfs_nodes, osm_nodes)
FilterCorrelatedData ==
    /\ filtered' = [ran |-> TRUE,
                    gtfs |-> NotIn(gtfs_nodes, GtfsCorrelated(file)),
                    osm |-> NotIn(osm_nodes, OsmCorrelated(file)),
                    of |-> matches]
    /\ UNCHANGED <<last_clicked_gtfs_element, last_clicked_osm_element, file,
                   gtfs_nodes, osm_nodes, matches>>
    /\ UNCHANGED osmVars

NextCorr ==
    ClickGtfs \/ ClickOsm \/ Reset \/ WriteCorrelationRow \/ FilterCorrelatedData

NextOsm == Classify \/ StartResolve \/ ResolvePlatform \/ Return

vars == <<osmVars, corrVars>>

Init == InitOsm /\ InitCorr

Next == NextOsm

\* osm_2_gdf on every input, no exception raised while resolving.
Spec == Init /\ [][Next]_vars

NextFault == NextOsm \/ ResolveFault

\* osm_2_gdf where the body of the resolution loop may raise.
SpecFault == Init /\ [][NextFault]_vars

\* osm_2_gdf has nothing to classify; the correlation file is empty.
InitIdle == InitOsm /\ elements = <<>> /\ InitCorr

\* The correlation file, written and read in any order.
SpecCorr == InitIdle /\ [][NextCorr]_vars

(***************************************************************************)
(* Vocabulary of the properties.                                           *)
(***************************************************************************)
\* The elements the classification loop has gone past.
Classified == 1..(i - 1)

\* The positions of the records made from element j / from platform q.
NodeRecordsOf(j) ==
    {k \in 1..Len(origin) : origin[k].kind = "node" /\ origin[k].idx = j}
WayRecordsOf(q) ==
    {k \in 1..Len(origin) : origin[k].kind = "way" /\ origin[k].idx = q}

\* The record at position k of the column lists.
RecordAt(k) ==
    [type |-> types[k], id |-> ids[k], name |-> names[k], point |-> points[k]]

\* A node element with an integer id and float lat and lon.
HasPlace(e) ==
    e.type = "node" /\ e.id.k = "int" /\ e.lat.k = "float" /\ e.lon.k = "float"

\* The element has a key besides type, id, lat and lon.
HasOtherKeys(e) == e.tags.k # "absent" \/ e.nodes.k # "absent"

\* The references of a platform that the mapping holds, by position.
Hits(pl) ==
    {r \in 1..Len(pl.nodes) : Str(pl.nodes[r]) \in DOMAIN platform_nodes}

\* The least element of a non-empty set of numbers.
Least(S) == CHOOSE x \in S : \A y \in S : x <= y

\* The "failed to validate" events logged for element j.
ValidationLogsOf(j) ==
    {k \in 1..Len(log) : log[k].event = "failed to validate" /\ log[k].idx = j}

(***************************************************************************)
(* C1                                                                      *)
(***************************************************************************)
\* C1: an exception raised while one platform is resolved is logged and costs
\* that platform only: every platform after it is still resolved, so one that
\* has a reference in the mapping still has its record when osm_2_gdf returns.
C1_FaultCostsOnePlatform ==
    (pc = "done" /\ faultAt # 0) =>
        /\ \E k \in 1..Len(log) : log[k].event = "fooock" /\ log[k].idx = faultAt
        /\ WayRecordsOf(faultAt) = {}
        /\ \A q \in (faultAt + 1)..Len(platforms) :
              Hits(platforms[q]) # {} => WayRecordsOf(q) # {}

(***************************************************************************)
(* C2                                                                      *)
(***************************************************************************)
\* C2: filter_correlated_data, run on a file in which write_correlation_row
\* has recorded the match of GTFS stop G with OSM stop O, returns a GTFS table
\* without a row of stop_id G and an OSM table without a row of stop_id O, for
\* every match recorded.
C2_FilterDropsRecordedMatches ==
    filtered.ran =>
        \A m \in filtered.of :
            /\ \A k \in 1..Len(filtered.gtfs) : filtered.gtfs[k].stop_id # m[1]
            /\ \A k \in 1..Len(filtered.osm) : filtered.osm[k].stop_id # m[2]

Dropped(e) ==
    CASE e.type = "node" ->
            ~osm_node_stop_validator(e) /\ ~osm_node_part_of_way_validator(e)
      [] e.type = "way" -> ~osm_way_stop_validator(e)
      [] OTHER -> TRUE

\* C4: every element the classification loop drops has exactly one log event.
C4_OneLogPerDroppedElement ==
    \A j \in Classified :
        Dropped(elements[j]) => Cardinality(ValidationLogsOf(j)) = 1

(***************************************************************************)
(* C5                                                                      *)
(***************************************************************************)
\* C5: whatever the elements of the input are, osm_2_gdf raises nothing: it
\* classifies every element and returns a table.
C5_NoElementStopsTheRun ==
    /\ pc # "raised"
    /\ pc \in {"resolve", "done"} => Classified = 1..Len(elements)

(***************************************************************************)
(* C6                                                                      *)
(***************************************************************************)
\* The tags of e hold public_transport=platform or highway=bus_stop.
HasStopTag(e) ==
    /\ e.tags.k = "dict"
    /\ (e.tags.public_transport = "platform" \/ e.tags.highway = "bus_stop")

\* C6: a node with an integer id, float lat and lon and a name that is absent
\* or not empty has exactly one record (type "node", str(id), its name or
\* "n/a", Point(lon, lat)) when its tags hold one of the two stop tags, and no
\* node record when they hold neither.
C6_RecordIffStopTag ==
    \A j \in Classified :
        LET e == elements[j] IN
        (HasPlace(e) /\ (e.tags.name = NoKey \/ e.tags.name # "")) =>
            IF HasStopTag(e)
            THEN /\ Cardinality(NodeRecordsOf(j)) = 1
                 /\ \A k \in NodeRecordsOf(j) :
                       RecordAt(k) =
                         [type |-> "node", id |-> Str(e.id.v),
                          name |-> IF e.tags.name = NoKey THEN NA ELSE e.tags.name,
                          point |-> Point(e.lon.v, e.lat.v)]
            ELSE NodeRecordsOf(j) = {}

C8_ResolutionAfterClassification ==
    (pc \in {"resolve", "done"} \/ \E k \in 1..Len(origin) : origin[k].kind = "way") =>
        /\ Classified = 1..Len(elements)
        /\ \A j \in 1..Len(elements) :
              osm_node_part_of_way_validator(elements[j]) =>
                  /\ j \in entered
                  /\ Str(elements[j].id.v) \in DOMAIN platform_nodes

\* osm_2_gdf has returned a way record bound to a node that comes later in the
\* input than the way.
C8_Witness ==
    /\ pc = "done"
    /\ \E jw \in 1..Len(elements), jn \in 1..Len(elements), k \in 1..Len(origin) :
          /\ jw < jn
          /\ osm_way_stop_validator(elements[jw])
          /\ jn \in entered
          /\ origin[k].kind = "way"
          /\ ids[k] = Str(elements[jw].id.v)
          /\ origin[k].ref = elements[jn].id.v
          /\ \A j \in entered : elements[j].id.v = elements[jn].id.v => j = jn

(***************************************************************************)
(* C9                                                                      *)
(***************************************************************************)
\* The row of a standalone stop node.
NodeRow(e) ==
    [stop_type |-> "node", stop_id |-> Str(e.id.v), stop_name |-> NameOf(e),
     geometry |-> Point(e.lon.v, e.lat.v)]

\* The row of a platform way whose first reference in the mapping is at r.
WayRow(e, r) ==
    [stop_type |-> "way", stop_id |-> Str(e.id.v), stop_name |-> NameOf(e),
     geometry |-> platform_nodes[Str(e.nodes.v[r])].point]

\* The positions of the references of way e that the mapping holds.
RefHits(e) ==
    {r \in 1..Len(e.nodes.v) : Str(e.nodes.v[r]) \in DOMAIN platform_nodes}

RECURSIVE RowsFrom(_, _)
\* The rows of the elements from position j on, of one kind ("node": the
\* standalone stops; "way": the platform ways that have a reference in the
\* mapping), in the order of the input.
RowsFrom(kind, j) ==
    IF j > Len(elements) THEN <<>>
    ELSE LET e == elements[j] IN
         (IF kind = "node" /\ osm_node_stop_validator(e) THEN <<NodeRow(e)>>
          ELSE IF kind = "way" /\ osm_way_stop_validator(e) /\ RefHits(e) # {}
               THEN <<WayRow(e, Least(RefHits(e)))>>
          ELSE <<>>)
         \o RowsFrom(kind, j + 1)

\* C9: the table returned is the node records in the order of their elements
\* in the input, then the way records in the order of their ways in the input,
\* each once: nothing is filtered, merged or moved.
C9_NodesThenWaysInInputOrder ==
    pc = "done" => gdf = RowsFrom("node", 1) \o RowsFrom("way", 1)

\* osm_2_gdf has returned a table with a node record before a way record,
\* where the way is the first element of the input and the stop node a later
\* one.
C9_Witness ==
    /\ pc = "done"
    /\ \E kn \in 1..Len(gdf), kw \in 1..Len(gdf) :
          /\ gdf[kn].stop_type = "node"
          /\ gdf[kw].stop_type = "way"
          /\ kn < kw
          /\ origin[kn].idx > 1
          /\ osm_way_stop_validator(elements[1])

(***************************************************************************)
(* C10                                                                     *)
(***************************************************************************)
\* No two node elements of the input have the same id.
NoRepeatedNodeIds ==
    \A j1, j2 \in 1..Len(elements) :
        (HasPlace(elements[j1]) /\ HasPlace(elements[j2])
         /\ elements[j1].id.v = elements[j2].id.v) => j1 = j2

\* C10: no node element both has a record and is in the mapping; a node with
\* an id and a place that validates as a standalone stop has its one record
\* and is not put into the mapping; and, when no id is repeated, no way record
\* is bound to the node of a standalone stop.
C10_StopNodeNeverMember ==
    /\ \A j \in Classified : ~(j \in entered /\ NodeRecordsOf(j) # {})
    /\ \A j \in Classified :
          (HasPlace(elements[j]) /\ osm_node_stop_validator(elements[j])) =>
              /\ Cardinality(NodeRecordsOf(j)) = 1
              /\ j \notin entered
    /\ (pc = "done" /\ NoRepeatedNodeIds) =>
          \A k \in 1..Len(origin), j \in 1..Len(elements) :
              (origin[k].kind = "way" /\ NodeRecordsOf(j) # {}) =>
                  origin[k].ref # elements[j].id.v

\* osm_2_gdf has returned; a platform whose first reference is a standalone
\* stop (which has its record) is bound to a later reference instead.
C10_Witness ==
    /\ pc = "done"
    /\ NoRepeatedNodeIds
    /\ \E q \in 1..Len(platforms), j \in 1..Len(elements), k \in 1..Len(origin) :
          /\ NodeRecordsOf(j) # {}
          /\ platforms[q].nodes[1] = elements[j].id.v
          /\ origin[k].kind = "way" /\ origin[k].idx = q
          /\ origin[k].ref # elements[j].id.v

=============================================================================
